---- MODULE Spec2Model ----
(***************************************************************************)
(* A model of auto_annotate.py: the geometry normalizer (rectify_bbox,     *)
(* normalize_bbox, normalize_point), the gaze classifier (analyze_gaze),   *)
(* the annotation assembler (build_annotations) and the transmission loop  *)
(* of main.                                                                *)
(*                                                                         *)
(* Python floats are modelled by exact rationals <<n, d>> in lowest terms  *)
(* with d > 0; a comparison of two square roots is made on the squares.    *)
(* A call returns [st |-> "ok", v |-> value] or, when the code raises,     *)
(* [st |-> the exception's name, v |-> <<>>].                              *)
(***************************************************************************)
EXTENDS Integers, Sequences, FiniteSets, TLC

VARIABLES
    pc,          \* "call": the arguments are chosen; "done": the call has ended
    args,        \* the arguments of the function called
    ret,         \* what the call returned or raised (<<>> before the call)
    mpc,         \* main's position: "start", "loop", "done", "crashed", "off"
    available,   \* main: the items load_available_images returned
    session_total, \* main: the session's image count (500 when not found)
    total,       \* main: min(len(available), session_total)
    idx,         \* main: the index of the next iteration of the loop
    posts        \* main: the POSTs issued so far, [idx, n, status] in order

vars == <<pc, args, ret, mpc, available, session_total, total, idx, posts>>

mainVars == <<mpc, available, session_total, total, idx, posts>>

callVars == <<pc, args, ret>>

----------------------------------------------------------------------------
(* Bounds of the model *)

\* image widths and heights range over 1..MaxDim
MaxDim == 2

\* the 'gazes' list of an item holds at most MaxGazes entries
MaxGazes == 2

\* raw bbox lists hold at most MaxBoxLen components, raw points MaxPtLen
MaxBoxLen == 5

MaxPtLen == 3

\* main: at most MaxAvail available items, a parsed session total in 0..MaxTotal
MaxAvail == 3

MaxTotal == 3

\* rectify_bbox: integer coordinates in -MaxCoord..MaxCoord
MaxCoord == 3

----------------------------------------------------------------------------
(* Exact rational arithmetic standing for float arithmetic *)

Abs(n) == IF n < 0 THEN -n ELSE n

RECURSIVE GCD(_, _)
GCD(a, b) == IF b = 0 THEN a ELSE GCD(b, a % b)

\* the rational n/d (d # 0) in lowest terms with a positive denominator
R(n, d) ==
    LET g == GCD(Abs(n), Abs(d))
        s == IF d < 0 THEN -1 ELSE 1
    IN  <<(s * n) \div g, (s * d) \div g>>

Zero == R(0, 1)

One == R(1, 1)

RAdd(a, b) == R(a[1] * b[2] + b[1] * a[2], a[2] * b[2])

RNeg(a) == <<-a[1], a[2]>>

RSub(a, b) == RAdd(a, RNeg(b))

RMul(a, b) == R(a[1] * b[1], a[2] * b[2])

\* a / b for b # 0
RDiv(a, b) == R(a[1] * b[2], a[2] * b[1])

RLt(a, b) == a[1] * b[2] < b[1] * a[2]

RLe(a, b) == a[1] * b[2] <= b[1] * a[2]

RMin(a, b) == IF RLt(b, a) THEN b ELSE a

RMax(a, b) == IF RLt(a, b) THEN b ELSE a

RInt(n) == R(n, 1)

RSq(a) == RMul(a, a)

\* floor(sqrt(n)) of a natural number
RECURSIVE ISqrt(_)
ISqrt(n) ==
    IF n < 2 THEN n
    ELSE LET s == 2 * ISqrt(n \div 4)
         IN  IF (s + 1) * (s + 1) > n THEN s ELSE s + 1

Ok(v) == [st |-> "ok", v |-> v]

Raise(e) == [st |-> e, v |-> <<>>]

----------------------------------------------------------------------------
(* JSON values of a source item *)

Num(r) == [t |-> "num", v |-> r]

\* a string that is not the text of a number
Str == [t |-> "str", v |-> Zero]

\* a list (present) or None / a missing key (absent)
List(s) == [present |-> TRUE, items |-> s]

Missing == [present |-> FALSE, items |-> <<>>]

\* Python's truth value of None or a list
Truthy(l) == l.present /\ Len(l.items) > 0

\* float(v): the number, or ValueError on text that is no number
Float(v) == IF v.t = "num" THEN Ok(v.v) ELSE Raise("ValueError")

----------------------------------------------------------------------------
(* Geometry normalizer *)

RectifyBboxNoShift(x, y, w, h) ==
    <<x, y, IF RLt(w, Zero) THEN RNeg(w) ELSE w, IF RLt(h, Zero) THEN RNeg(h) ELSE h>>

\* w and h are floats when normalize_bbox calls it, never None
rectify_bbox(x, y, w, h) ==
    LET x1 == IF RLt(w, Zero) THEN RAdd(x, w) ELSE x
        w1 == IF RLt(w, Zero) THEN RNeg(w) ELSE w
        y1 == IF RLt(h, Zero) THEN RAdd(y, h) ELSE y
        h1 == IF RLt(h, Zero) THEN RNeg(h) ELSE h
    IN  <<x1, y1, w1, h1>>

DefaultBox == <<R(1, 4), R(1, 4), R(1, 2), R(1, 2)>>

DefaultPoint == <<R(1, 2), R(1, 2)>>

ClampUpperOnly(v) == RMin(One, v)

\* max(0.0, min(1.0, v))
Clamp01(v) == RMax(Zero, RMin(One, v))

normalize_bbox(bbox, is_normalized, width, height) ==
    IF ~Truthy(bbox) \/ Len(bbox.items) < 4
    THEN Ok(DefaultBox)
    ELSE IF \E i \in 1..4 : Float(bbox.items[i]).st # "ok"
    THEN Raise("ValueError")
    ELSE LET f == [i \in 1..4 |-> Float(bbox.items[i]).v]
             r == rectify_bbox(f[1], f[2], f[3], f[4])
             x == IF is_normalized THEN r[1] ELSE RDiv(r[1], RInt(width))
             y == IF is_normalized THEN r[2] ELSE RDiv(r[2], RInt(height))
             w == IF is_normalized THEN r[3] ELSE RDiv(r[3], RInt(width))
             h == IF is_normalized THEN r[4] ELSE RDiv(r[4], RInt(height))
         IN  Ok(<<Clamp01(x), Clamp01(y), Clamp01(w), Clamp01(h)>>)

\* the sentinel of a negative pixel coordinate
OffFrame == R(-1, 20)

NormalizePointClamped(pt, is_normalized, width, height) ==
    IF ~Truthy(pt) \/ Len(pt.items) < 2
    THEN DefaultPoint
    ELSE IF Float(pt.items[1]).st # "ok" \/ Float(pt.items[2]).st # "ok"
    THEN DefaultPoint
    ELSE LET px == Float(pt.items[1]).v
             py == Float(pt.items[2]).v
         IN  IF is_normalized
             THEN <<Clamp01(px), Clamp01(py)>>
             ELSE <<Clamp01(RDiv(px, RInt(width))), Clamp01(RDiv(py, RInt(height)))>>

normalize_point(pt, is_normalized, width, height) ==
    IF ~Truthy(pt) \/ Len(pt.items) < 2
    THEN DefaultPoint
    ELSE IF Float(pt.items[1]).st # "ok" \/ Float(pt.items[2]).st # "ok"
    THEN DefaultPoint
    ELSE LET px == Float(pt.items[1]).v
             py == Float(pt.items[2]).v
         IN  IF is_normalized
             THEN <<px, py>>
             ELSE <<IF RLe(Zero, px) THEN RDiv(px, RInt(width)) ELSE OffFrame,
                    IF RLe(Zero, py) THEN RDiv(py, RInt(height)) ELSE OffFrame>>

----------------------------------------------------------------------------
(* Gaze classifier *)

Tenth(k) == R(k, 10)

\* (gazeX - faceCenterX) ** 2 + (gazeY - faceCenterY) ** 2, in pixels squared
FaceDist2(gazeX, gazeY, faceX, faceY, faceW, faceH) ==
    LET faceCenterX == RAdd(faceX, RDiv(faceW, RInt(2)))
        faceCenterY == RAdd(faceY, RDiv(faceH, RInt(2)))
    IN  RAdd(RSq(RSub(gazeX, faceCenterX)), RSq(RSub(gazeY, faceCenterY)))

TargetTypeLowerEdgesOnly(gazeX, gazeY, width, height, faceW, faceH, d2) ==
    LET radius == RMul(RMin(faceW, faceH), Tenth(3))
    IN  IF RLt(gazeX, Zero) \/ RLt(gazeY, Zero)
        THEN "out-of-frame target"
        ELSE IF RLt(Zero, radius) /\ RLt(d2, RSq(radius))
        THEN "Eye-contact"
        ELSE "in-frame target"

\* d2 is the squared distance from the gaze to the face centre
TargetType(gazeX, gazeY, width, height, faceW, faceH, d2) ==
    LET radius == RMul(RMin(faceW, faceH), Tenth(3))
    IN  IF \/ RLt(gazeX, Zero) \/ RLt(RInt(width), gazeX)
           \/ RLt(gazeY, Zero) \/ RLt(RInt(height), gazeY)
        THEN "out-of-frame target"
        \* gazeDistance < radius, both sides taken squared
        ELSE IF RLt(Zero, radius) /\ RLt(d2, RSq(radius))
        THEN "Eye-contact"
        ELSE "in-frame target"

\* faceSize = sqrt(faceW * faceH); the comparisons are made on the squares
GazePosition(faceW, faceH, d2) ==
    LET area == RMul(faceW, faceH)
    IN  IF RLt(RMul(RInt(4), area), d2) THEN "farther"
        ELSE IF RLt(d2, RDiv(area, RInt(4))) THEN "closer"
        ELSE "equal"

\* the number of hundredths that f"{sqrt(d2) / pixelsPerMeter:.2f}" prints,
\* for pixelsPerMeter > 0
Hundredths(d2, pixelsPerMeter) ==
    LET q == RDiv(RMul(RInt(40000), d2), RSq(pixelsPerMeter))
    IN  (ISqrt(q[1] \div q[2]) + 1) \div 2

estimatedFaceWidthMeters == R(1, 5)

PixelsPerMeter(faceW) ==
    IF RLt(Zero, estimatedFaceWidthMeters)
    THEN RDiv(faceW, estimatedFaceWidthMeters)
    ELSE One

\* gazeDistanceFromFace / pixelsPerMeter, formatted: a float division by
\* zero raises ZeroDivisionError
Scale(faceW, d2) ==
    LET ppm == PixelsPerMeter(faceW)
    IN  IF ppm = Zero
        THEN Raise("ZeroDivisionError")
        ELSE Ok(Hundredths(d2, ppm))

ObjectDetection(targetType, gaze) ==
    IF targetType = "Eye-contact" THEN "Camera/Viewer"
    ELSE IF RLt(gaze[2], Tenth(3)) THEN "Object above (ceiling, sky, etc.)"
    ELSE IF RLt(Tenth(7), gaze[2]) THEN "Object below (floor, ground, etc.)"
    ELSE IF RLt(gaze[1], Tenth(3)) THEN "Object on left side"
    ELSE IF RLt(Tenth(7), gaze[1]) THEN "Object on right side"
    ELSE "Central object"

Third == R(3333, 10000)

TwoThirds == R(6667, 10000)

\* the focal point as [oof, vert, horiz]: the label is vert-horiz without
\* its "middle" and "center" parts ("center" when both are), after the
\* prefix "out-of-frame" when oof
FocalPoint(gaze) ==
    LET gx == gaze[1]
        gy == gaze[2]
    IN  IF RLt(gx, Zero) \/ RLt(One, gx) \/ RLt(gy, Zero) \/ RLt(One, gy)
        THEN [oof |-> TRUE,
              horiz |-> IF RLt(gx, Zero) THEN "left"
                        ELSE IF RLt(One, gx) THEN "right" ELSE "center",
              vert |-> IF RLt(gy, Zero) THEN "top"
                       ELSE IF RLt(One, gy) THEN "bottom" ELSE "middle"]
        ELSE [oof |-> FALSE,
              horiz |-> IF RLt(gx, Third) THEN "left"
                        ELSE IF RLt(TwoThirds, gx) THEN "right" ELSE "center",
              vert |-> IF RLt(gy, Third) THEN "top"
                       ELSE IF RLt(TwoThirds, gy) THEN "bottom" ELSE "middle"]

analyze_gaze(bbox, gaze, width, height) ==
    LET gazeX == RMul(gaze[1], RInt(width))
        gazeY == RMul(gaze[2], RInt(height))
        faceX == RMul(bbox[1], RInt(width))
        faceY == RMul(bbox[2], RInt(height))
        faceW == RMul(bbox[3], RInt(width))
        faceH == RMul(bbox[4], RInt(height))
        d2 == FaceDist2(gazeX, gazeY, faceX, faceY, faceW, faceH)
        targetType == TargetType(gazeX, gazeY, width, height, faceW, faceH, d2)
        scale == Scale(faceW, d2)
    IN  IF scale.st # "ok"
        THEN Raise(scale.st)
        ELSE Ok([target_type |-> targetType,
                 farther_closer |-> GazePosition(faceW, faceH, d2),
                 scale |-> scale.v,
                 object_detection |-> ObjectDetection(targetType, gaze),
                 focal_point |-> FocalPoint(gaze)])

----------------------------------------------------------------------------
(* Annotation assembler *)

\* p.startswith('train/') or p.startswith('test2/'), p as its segments
IsGF(path) == Len(path) >= 2 /\ path[1] \in {"train", "test2"}

\* the files of the merged image roots: every item's image but missing.jpg
resolve_image_full_path(item) ==
    IF item.path[Len(item.path)] = "missing.jpg"
    THEN Raise("FileNotFoundError")
    ELSE Ok(<<item.width, item.height>>)

\* a normalized point as the list of two floats the code passes on
AsList(p) == List(<<Num(p[1]), Num(p[2])>>)

\* normalize_point(item.get('gaze') or eye, ...): the eye is the list already
\* normalized
PrimaryGaze(item, eye, is_gf, width, height) ==
    normalize_point(IF Truthy(item.gaze) THEN item.gaze ELSE AsList(eye),
                    is_gf, width, height)

Dist2(gaze, eye) == RAdd(RSq(RSub(gaze[1], eye[1])), RSq(RSub(gaze[2], eye[2])))

\* dist > 0.05, on the squares; exact, where the code's floats round (there
\* 0.55 - 0.5 is a little more than 0.05)
EyeIsDistinct(gaze, eye) == RLt(RSq(R(1, 20)), Dist2(gaze, eye))

\* the normalized gaze points in emission order
GazeSources(item, gaze, eye, is_gf, width, height) ==
    <<gaze>>
    \o (IF EyeIsDistinct(gaze, eye) THEN <<eye>> ELSE <<>>)
    \o (IF item.gazes.kind = "list"
        THEN [j \in 1..Len(item.gazes.items) |->
                 normalize_point(item.gazes.items[j], is_gf, width, height)]
        ELSE <<>>)

make_ann(bbox, g, analysis) ==
    [bbox |-> bbox, gaze |-> g,
     target_type |-> analysis.target_type,
     farther_closer |-> analysis.farther_closer,
     scale |-> analysis.scale,
     object_detection |-> analysis.object_detection,
     focal_point |-> analysis.focal_point,
     gaze_number |-> 0]

NumberFromZero(anns) ==
    [i \in 1..Len(anns) |-> [anns[i] EXCEPT !.gaze_number = i - 1]]

\* for i, ann in enumerate(anns, start=1): ann['gaze_number'] = i
AssignGazeNumbers(anns) ==
    [i \in 1..Len(anns) |-> [anns[i] EXCEPT !.gaze_number = i]]

build_annotations(item) ==
    LET img == resolve_image_full_path(item)
    IN  IF img.st # "ok" THEN Raise(img.st)
        ELSE
        LET width == img.v[1]
            height == img.v[2]
            is_gf == IsGF(item.path)
            nb == normalize_bbox(item.bbox, is_gf, width, height)
        IN  IF nb.st # "ok" THEN Raise(nb.st)
            ELSE
            LET bbox == nb.v
                eye == normalize_point(item.eye, is_gf, width, height)
                gaze == PrimaryGaze(item, eye, is_gf, width, height)
                src == GazeSources(item, gaze, eye, is_gf, width, height)
                an == [i \in 1..Len(src) |-> analyze_gaze(bbox, src[i], width, height)]
            IN  IF \E i \in 1..Len(src) : an[i].st # "ok"
                THEN Raise(an[CHOOSE i \in 1..Len(src) :
                                  /\ an[i].st # "ok"
                                  /\ \A j \in 1..(i - 1) : an[j].st = "ok"].st)
                ELSE Ok(AssignGazeNumbers(
                            [i \in 1..Len(src) |-> make_ann(bbox, src[i], an[i].v)]))

----------------------------------------------------------------------------
(* Transmission loop of main *)

PostFailedOnServerError(status) == status >= 500

\* resp.status_code not in (200, 302)
PostFailed(status) == status \notin {200, 302}

Min(a, b) == IF a < b THEN a ELSE b

\* session_total = None falls back to 500
FallbackTotal == 500

StatusCodes == {200, 302, 404, 500}

----------------------------------------------------------------------------
(* Inputs *)

SeqsUpTo(S, n) == UNION {[1..k -> S] : k \in 0..n}

Halves == {R(k, 2) : k \in -MaxCoord..MaxCoord}

Dims == 1..MaxDim

BoxVals == {R(-3, 2), R(-1, 4), Zero, R(3, 4), R(3, 2)}

BoxComps == {Num(v) : v \in BoxVals} \cup {Str}

Repeat(c, k) == [i \in 1..k |-> c]

\* None, every list of at most 4 components, and lists of 4 components
\* followed by more
RawBoxes ==
    {Missing}
    \cup {List(s) : s \in SeqsUpTo(BoxComps, 4)}
    \cup {List(s \o Repeat(c, k)) :
             s \in [1..4 -> BoxComps], c \in {Str, Num(One)}, k \in 1..(MaxBoxLen - 4)}

PtComps == {Num(v) : v \in Halves} \cup {Str}

RawPoints ==
    {Missing}
    \cup {List(s) : s \in SeqsUpTo(PtComps, 2)}
    \cup {List(s \o Repeat(c, k)) :
             s \in [1..2 -> PtComps], c \in {Str, Num(One)}, k \in 1..(MaxPtLen - 2)}

\* normalized boxes and gaze points for analyze_gaze
BoxPos == {Zero, R(1, 4), R(1, 2)}

BoxSize == {Zero, R(1, 4), R(1, 2), One}

GazeVals == {R(-1, 2), Zero, R(1, 4), R(1, 2), R(3, 4), One, R(3, 2)}

\* source items
Pt(a, b) == List(<<Num(a), Num(b)>>)

ItemPaths ==
    {<<"train", "a.jpg">>, <<"test2", "a.jpg">>, <<"vat", "a.jpg">>,
     <<"vat", "missing.jpg">>}

ItemBoxes ==
    {Missing,
     List(<<Num(R(1, 4)), Num(R(1, 4)), Num(R(1, 2)), Num(R(1, 2))>>),
     List(<<Num(R(1, 2)), Num(R(1, 2)), Num(Zero), Num(R(1, 2))>>),
     List(<<Num(One), Num(One), Num(R(-1, 2)), Num(R(-1, 2))>>),
     List(<<Num(Zero), Str, Num(One), Num(One)>>)}

ItemEyes ==
    {Missing, Pt(R(1, 2), R(1, 2)), Pt(R(1, 4), R(3, 4)), Pt(RInt(-1), R(1, 2)),
     List(<<Str, Num(Zero)>>)}

ItemGazes ==
    {Missing, List(<<>>), Pt(R(1, 2), R(1, 2)), Pt(R(11, 20), R(1, 2)),
     Pt(R(3, 5), R(1, 2)), Pt(R(3, 2), R(1, 4)), Pt(R(53, 100), R(54, 100))}

ExtraGazes == {Pt(R(1, 2), R(1, 2)), List(<<Str>>)}

\* the 'gazes' key: absent, a value that is no list, or a list of points
ItemGazeLists ==
    {[kind |-> "absent", items |-> <<>>], [kind |-> "other", items |-> <<>>]}
    \cup {[kind |-> "list", items |-> s] : s \in SeqsUpTo(ExtraGazes, MaxGazes)}

\* every combination of points on the items whose box normalizes to a
\* positive width, and the failing paths and boxes on a few points
Items ==
    [path : ItemPaths \ {<<"vat", "missing.jpg">>},
     bbox : {b \in ItemBoxes : /\ \A i \in 1..Len(b.items) : b.items[i] # Str
                               /\ (b.present => b.items[3] # Num(Zero))},
     eye : ItemEyes, gaze : ItemGazes, gazes : ItemGazeLists,
     width : Dims, height : Dims]
    \cup
    [path : ItemPaths, bbox : ItemBoxes, eye : {Pt(R(1, 2), R(1, 2))},
     gaze : {Missing, Pt(R(3, 5), R(1, 2))},
     gazes : {[kind |-> "absent", items |-> <<>>],
              [kind |-> "list", items |-> <<Pt(R(1, 2), R(1, 2))>>]},
     width : Dims, height : Dims]

\* main's items: one that builds, one with a face box of width 0, one whose
\* image is missing
MainItem(path, box) ==
    [path |-> path, bbox |-> box, eye |-> Pt(R(1, 2), R(1, 2)),
     gaze |-> Pt(R(3, 4), R(1, 2)), gazes |-> [kind |-> "absent", items |-> <<>>],
     width |-> 1, height |-> 1]

MainItems ==
    {MainItem(<<"train", "a.jpg">>, Missing),
     MainItem(<<"vat", "a.jpg">>,
              List(<<Num(R(1, 2)), Num(R(1, 2)), Num(Zero), Num(R(1, 2))>>)),
     MainItem(<<"vat", "missing.jpg">>, Missing)}

----------------------------------------------------------------------------
(* Specifications *)

MainOff ==
    /\ mpc = "off"
    /\ available = <<>>
    /\ session_total = 0
    /\ total = 0
    /\ idx = 0
    /\ posts = <<>>

\* the call ends with r, a value returned or an exception raised
Return(r) ==
    /\ pc' = "done"
    /\ ret' = r
    /\ UNCHANGED <<args, mainVars>>

\* rectify_bbox on every box of half-integer coordinates
InitRect ==
    /\ pc = "call"
    /\ args \in [x : Halves, y : Halves, w : Halves, h : Halves]
    /\ ret = <<>>
    /\ MainOff

CallRectify ==
    /\ pc = "call"
    /\ Return(rectify_bbox(args.x, args.y, args.w, args.h))

SpecRect == InitRect /\ [][CallRectify]_vars

\* normalize_bbox and normalize_point on well-formed and malformed inputs
InitNorm ==
    /\ pc = "call"
    /\ \/ args \in [fn : {"normalize_bbox"}, raw : RawBoxes,
                    is_normalized : BOOLEAN, width : Dims, height : Dims]
       \/ args \in [fn : {"normalize_point"}, raw : RawPoints,
                    is_normalized : BOOLEAN, width : Dims, height : Dims]
    /\ ret = <<>>
    /\ MainOff

CallNormalizeBbox ==
    /\ pc = "call"
    /\ args.fn = "normalize_bbox"
    /\ Return(normalize_bbox(args.raw, args.is_normalized, args.width, args.height))

CallNormalizePoint ==
    /\ pc = "call"
    /\ args.fn = "normalize_point"
    /\ Return(Ok(normalize_point(args.raw, args.is_normalized, args.width, args.height)))

NextNorm == CallNormalizeBbox \/ CallNormalizePoint

SpecNorm == InitNorm /\ [][NextNorm]_vars

\* analyze_gaze on normalized boxes and gaze points inside and outside the frame
InitGaze ==
    /\ pc = "call"
    /\ args \in [bbox : BoxPos \X BoxPos \X BoxSize \X BoxSize,
                 gaze : GazeVals \X GazeVals, width : Dims, height : Dims]
    /\ ret = <<>>
    /\ MainOff

CallAnalyzeGaze ==
    /\ pc = "call"
    /\ Return(analyze_gaze(args.bbox, args.gaze, args.width, args.height))

SpecGaze == InitGaze /\ [][CallAnalyzeGaze]_vars

\* build_annotations on one source item
InitBuild ==
    /\ pc = "call"
    /\ args \in Items
    /\ ret = <<>>
    /\ MainOff

CallBuildAnnotations ==
    /\ pc = "call"
    /\ Return(build_annotations(args))

SpecBuild == InitBuild /\ [][CallBuildAnnotations]_vars

\* main
InitMain ==
    /\ pc = "off"
    /\ args = <<>>
    /\ ret = <<>>
    /\ mpc = "start"
    /\ available \in SeqsUpTo(MainItems, MaxAvail)
    /\ session_total = 0
    /\ total = 0
    /\ idx = 0
    /\ posts = <<>>

\* main up to the loop: the early returns, the session total and the cap
MainStart ==
    /\ mpc = "start"
    /\ \E have_requests \in BOOLEAN, root_status \in StatusCodes,
          page_status \in StatusCodes, found \in (0..MaxTotal) \cup {-1} :
          IF \/ Len(available) = 0
             \/ ~have_requests
             \/ root_status \notin {200, 302}
          THEN /\ mpc' = "done"
               /\ UNCHANGED <<session_total, total>>
          ELSE /\ mpc' = "loop"
               /\ session_total' = IF page_status = 200 /\ found >= 0
                                   THEN found ELSE FallbackTotal
               /\ total' = Min(Len(available), session_total')
    /\ UNCHANGED <<available, idx, posts, callVars>>

\* one iteration of the loop over available[:total]
MainIteration ==
    /\ mpc = "loop"
    /\ idx < total
    /\ LET anns == build_annotations(available[idx + 1])
       IN  IF anns.st # "ok"
           THEN /\ mpc' = "crashed"
                /\ UNCHANGED <<idx, posts>>
           ELSE \E status \in StatusCodes :
                   /\ posts' = Append(posts, [idx |-> idx, n |-> Len(anns.v),
                                              status |-> status])
                   /\ IF PostFailed(status)
                      THEN mpc' = "done" /\ idx' = idx
                      ELSE mpc' = "loop" /\ idx' = idx + 1
    /\ UNCHANGED <<available, session_total, total, callVars>>

\* the loop is exhausted
MainExit ==
    /\ mpc = "loop"
    /\ idx >= total
    /\ mpc' = "done"
    /\ UNCHANGED <<available, session_total, total, idx, posts, callVars>>

NextMain == MainStart \/ MainIteration \/ MainExit

SpecMain == InitMain /\ [][NextMain]_vars

----------------------------------------------------------------------------
(* Claims *)

IsNum(c) == c.t = "num"

\* a list whose first n components are all numbers
WellFormed(raw, n) ==
    /\ raw.present
    /\ Len(raw.items) >= n
    /\ \A i \in 1..n : IsNum(raw.items[i])

InUnit(v) == RLe(Zero, v) /\ RLe(v, One)

\* C1: for every item whose image resolves, build_annotations returns
\* exactly 1 + e + k records, e = 1 iff the distance between the normalized
\* primary gaze and the normalized eye is strictly greater than 0.05, k the
\* number of entries of the 'gazes' list (0 when absent or not a list).
C1_RecordCount ==
    (pc = "done" /\ resolve_image_full_path(args).st = "ok") =>
        LET is_gf == IsGF(args.path)
            eye == normalize_point(args.eye, is_gf, args.width, args.height)
            gaze == ret.v[1].gaze
            e == IF RLt(R(1, 400), Dist2(gaze, eye)) THEN 1 ELSE 0
            k == IF args.gazes.kind = "list" THEN Len(args.gazes.items) ELSE 0
        IN  /\ ret.st = "ok"
            /\ Len(ret.v) = 1 + e + k

\* C2: in the list build_annotations returns, the record at position i has
\* gaze_number = i, and the records are in emission order: the primary gaze,
\* then the eye record if it was emitted, then one record per 'gazes' entry
\* in the order of that list.
C2_NumberingAndOrder ==
    (pc = "done" /\ ret.st = "ok") =>
        LET is_gf == IsGF(args.path)
            eye == normalize_point(args.eye, is_gf, args.width, args.height)
            gaze == normalize_point(IF Truthy(args.gaze) THEN args.gaze ELSE AsList(eye),
                                    is_gf, args.width, args.height)
            e == IF RLt(R(1, 400), Dist2(gaze, eye)) THEN 1 ELSE 0
            k == IF args.gazes.kind = "list" THEN Len(args.gazes.items) ELSE 0
        IN  /\ Len(ret.v) = 1 + e + k
            /\ \A i \in 1..Len(ret.v) : ret.v[i].gaze_number = i
            /\ ret.v[1].gaze = gaze
            /\ (e = 1 => ret.v[2].gaze = eye)
            /\ \A j \in 1..k :
                  ret.v[1 + e + j].gaze =
                      normalize_point(args.gazes.items[j], is_gf, args.width, args.height)

\* an eye record and two explicit gazes that differ from each other
C2_Witness ==
    /\ pc = "done"
    /\ ret.st = "ok"
    /\ Len(ret.v) = 4
    /\ ret.v[2].gaze # ret.v[1].gaze
    /\ ret.v[3].gaze # ret.v[4].gaze
    /\ ~IsGF(args.path)

\* C3: when the item provides no gaze point, under either coordinate
\* convention, the primary record's gaze equals the normalized eye position,
\* and build_annotations emits exactly one record plus one per 'gazes' entry.
C3_NoGazeMeansEye ==
    (pc = "done" /\ ~Truthy(args.gaze) /\ ret.st = "ok") =>
        LET eye == normalize_point(args.eye, IsGF(args.path), args.width, args.height)
            k == IF args.gazes.kind = "list" THEN Len(args.gazes.items) ELSE 0
        IN  /\ ret.v[1].gaze = eye
            /\ Len(ret.v) = 1 + k

\* C4: images are posted one at a time in increasing index order from 0;
\* once a POST returns a status other than 200 or 302 no later POST is
\* issued, for that index or a greater one; the number of POSTs never
\* exceeds min(number of available images, session total).
C4_PostsInOrderStopAtFailure ==
    /\ \A k \in 1..Len(posts) :
          /\ posts[k].idx = k - 1
          /\ (posts[k].status \notin {200, 302} => k = Len(posts))
    /\ (mpc # "start" => Len(posts) <= Min(Len(available), session_total))
    /\ Len(posts) <= Len(available)

\* a failed POST after a successful one, with images left to post
C4_Witness ==
    /\ mpc = "done"
    /\ Len(posts) = 2
    /\ posts[1].status = 302
    /\ posts[2].status = 404
    /\ total = 3

\* C5: for every malformed box (missing, empty, fewer than 4 components, or
\* a non-numeric component) normalize_bbox returns [0.25, 0.25, 0.5, 0.5],
\* for every malformed point normalize_point returns [0.5, 0.5], and neither
\* raises.  A non-numeric component is taken among those the function reads.
C5_MalformedGivesDefault ==
    (pc = "done") =>
        /\ (args.fn = "normalize_bbox" /\ ~WellFormed(args.raw, 4))
               => ret = Ok(DefaultBox)
        /\ (args.fn = "normalize_point" /\ ~WellFormed(args.raw, 2))
               => ret = Ok(DefaultPoint)

\* C6: when the normalized face-box width is 0, analyze_gaze computes the
\* scale with a pixels-per-meter divisor of 1.0 and returns a complete label
\* record; it never raises a division-by-zero error.
C6_ZeroWidthScale ==
    (pc = "done" /\ args.bbox[3] = Zero) =>
        /\ ret.st = "ok"
        /\ ret.v.scale =
               Hundredths(FaceDist2(RMul(args.gaze[1], RInt(args.width)),
                                    RMul(args.gaze[2], RInt(args.height)),
                                    RMul(args.bbox[1], RInt(args.width)),
                                    RMul(args.bbox[2], RInt(args.height)),
                                    Zero,
                                    RMul(args.bbox[4], RInt(args.height))),
                          One)

\* C7: for every box with at least 4 numeric components, under either
\* convention, each of the four components normalize_bbox returns lies in
\* [0, 1].
C7_BoxInUnitSquare ==
    (pc = "done" /\ args.fn = "normalize_bbox" /\ WellFormed(args.raw, 4)) =>
        /\ ret.st = "ok"
        /\ Len(ret.v) = 4
        /\ \A i \in 1..4 : InUnit(ret.v[i])

\* a pixel-space box left of the frame, of negative height, wider than the image
C7_Witness ==
    /\ pc = "done"
    /\ args.fn = "normalize_bbox"
    /\ WellFormed(args.raw, 4)
    /\ ~args.is_normalized
    /\ args.width = 1
    /\ args.raw.items[1].v = R(-3, 2)
    /\ args.raw.items[3].v = R(3, 2)
    /\ args.raw.items[4].v = R(-3, 2)
    /\ ret = Ok(<<Zero, Zero, One, IF args.height = 1 THEN One ELSE R(3, 4)>>)

\* C8: for every box, rectify_bbox returns a box of non-negative width and
\* height covering the same rectangle: its horizontal extent is
\* [min(x, x+w), max(x, x+w)], its vertical extent [min(y, y+h), max(y, y+h)];
\* a box whose width and height are non-negative is returned unchanged.
C8_RectifySameRectangle ==
    (pc = "done") =>
        LET x2 == RAdd(args.x, args.w)
            y2 == RAdd(args.y, args.h)
        IN  /\ RLe(Zero, ret[3]) /\ RLe(Zero, ret[4])
            /\ ret[1] = RMin(args.x, x2)
            /\ RAdd(ret[1], ret[3]) = RMax(args.x, x2)
            /\ ret[2] = RMin(args.y, y2)
            /\ RAdd(ret[2], ret[4]) = RMax(args.y, y2)
            /\ (RLe(Zero, args.w) /\ RLe(Zero, args.h)
                   => ret = <<args.x, args.y, args.w, args.h>>)

\* a negative width with a non-negative height: one axis only is corrected
C8_Witness ==
    /\ pc = "done"
    /\ RLt(args.w, Zero)
    /\ RLt(Zero, args.h)
    /\ ret[1] # args.x
    /\ ret[2] = args.y

\* C9: target_type is 'out-of-frame target' exactly when the gaze lies
\* outside [0,1] on at least one axis, which is exactly when focal_point
\* begins with 'out-of-frame'; a record with target_type 'Eye-contact' or
\* object_detection 'Camera/Viewer' has neither.
C9_OutOfFrameConsistent ==
    (pc = "done" /\ ret.st = "ok") =>
        LET outside == ~InUnit(args.gaze[1]) \/ ~InUnit(args.gaze[2])
            r == ret.v
        IN  /\ (r.target_type = "out-of-frame target") <=> outside
            /\ r.focal_point.oof <=> outside
            /\ (r.target_type = "Eye-contact" \/ r.object_detection = "Camera/Viewer")
                   => (r.target_type # "out-of-frame target" /\ ~r.focal_point.oof)
            /\ (r.target_type = "Eye-contact") <=> (r.object_detection = "Camera/Viewer")

\* a gaze beyond the right edge of an image 2 pixels wide
C9_Witness ==
    /\ pc = "done"
    /\ ret.st = "ok"
    /\ args.width = 2
    /\ args.gaze = <<R(3, 2), R(1, 2)>>
    /\ ret.v.target_type = "out-of-frame target"
    /\ ret.v.focal_point = [oof |-> TRUE, horiz |-> "right", vert |-> "middle"]

\* C10: normalize_point never clamps a well-formed point: pre-normalized
\* coordinates are returned unchanged; a pixel coordinate of 0 or more is
\* divided by the image dimension, a negative one becomes -0.05, each axis
\* decided independently.
C10_PointNeverClamped ==
    (pc = "done" /\ args.fn = "normalize_point" /\ WellFormed(args.raw, 2)) =>
        LET px == args.raw.items[1].v
            py == args.raw.items[2].v
        IN  /\ ret.st = "ok"
            /\ args.is_normalized => ret.v = <<px, py>>
            /\ ~args.is_normalized =>
                  /\ IF RLt(px, Zero) THEN ret.v[1] = R(-1, 20)
                     ELSE RMul(ret.v[1], RInt(args.width)) = px
                  /\ IF RLt(py, Zero) THEN ret.v[2] = R(-1, 20)
                     ELSE RMul(ret.v[2], RInt(args.height)) = py

\* a pixel point right of the frame and above it: more than 1 on x, the
\* sentinel on y
C10_Witness ==
    /\ pc = "done"
    /\ args.fn = "normalize_point"
    /\ WellFormed(args.raw, 2)
    /\ ~args.is_normalized
    /\ RLt(One, ret.v[1])
    /\ RLt(args.raw.items[2].v, R(-1, 1))
    /\ ret.v[2] = R(-1, 20)

====
